---- MODULE Spec2Model ----
(***************************************************************************)
(* Model of the two asset generators of the QuickCurrency extension:       *)
(*   scripts/create-icons.py         (icon driver, create_currency_icon)   *)
(*   scripts/create-store-assets.py  (store-asset driver, gradient, popup) *)
(* A canvas is a record of its dimensions and the list of drawing calls    *)
(* made on it, in call order.  The calls into Pillow and the filesystem    *)
(* that can raise (truetype, textbbox, makedirs, save, listdir) succeed or *)
(* fail nondeterministically.  The euro sign is written "EUR_SIGN".        *)
(***************************************************************************)
EXTENDS Integers, Sequences, FiniteSets, TLC

VARIABLES
    pc,       \* position of the running driver
    idx,      \* icon driver: 1-based position in SIZES of the loop variable
    img,      \* the canvas built by the last create_* call and not yet saved
    dirs,     \* directories that exist
    files,    \* completed saves, in the order they happened: [name, img]
    partial,  \* names of files a failed save may have left behind
    stdout,   \* lines printed so far
    err,      \* the exception that ended the run ("none" while there is none)
    errAt,    \* the step that raised it
    fontLog,  \* the font loads made while building img, one entry per function
    grad,     \* the gradient being drawn row by row by create_gradient_background
    call      \* the function that was entered, with its arguments

vars == <<pc, idx, img, dirs, files, partial, stdout, err, errAt, fontLog, grad, call>>

Max(a, b) == IF a >= b THEN a ELSE b
Min(a, b) == IF a <= b THEN a ELSE b

NoImg == [w |-> 0, h |-> 0, mode |-> "none", ops |-> <<>>]
NoGrad == [on |-> FALSE]

(***************************************************************************)
(* create-icons.py                                                         *)
(***************************************************************************)
SIZES == <<16, 32, 48, 96, 128>>

IconDir == "public/icon"

\* int(n * 0.pp) for n >= 0: the product is never within rounding distance of
\* an integer for the configured sizes, so float truncation is exact floor.
IntPct(n, pct) == (n * pct) \div 100

\* int(n * 0.025)
IntPermille(n, pm) == (n * pm) \div 1000

\* The sources get_font tries, in the order of its nested try blocks.
FontOrder == <<"Helvetica", "SFNSMono", "default">>

TrueTypeSources == {"Helvetica", "SFNSMono"}

\* get_font(size) when exactly the sources in `loadable` load: the first of
\* FontOrder that loads, load_default() being always available.
get_font(size, loadable) ==
    LET sz == Max(8, size) IN
    IF "Helvetica" \in loadable
    THEN [face |-> "Helvetica", size |-> sz, tried |-> <<"Helvetica">>]
    ELSE IF "SFNSMono" \in loadable
    THEN [face |-> "SFNSMono", size |-> sz, tried |-> <<"Helvetica", "SFNSMono">>]
    ELSE [face |-> "default", size |-> 0,
          tried |-> <<"Helvetica", "SFNSMono", "default">>]

\* One drawing call on a canvas.  A text call records the size the layout
\* used for it; the font it was drawn with is the one fontLog records.
DrawOp(op, what, xy) == [op |-> op, what |-> what, xy |-> xy]

\* Outcomes of draw.textbbox((0, 0), text, font): it raises, or returns a box
\* whose width and height depend on the font file.
BBoxFail == [ok |-> FALSE, w |-> 0, h |-> 0]

\* A representative advance and height of one character in a font: the real
\* numbers come from the font file; load_default() is a small bitmap font.
CharW(font) == IF font.face = "default" THEN 6 ELSE (font.size * 3) \div 5

CharH(font) == IF font.face = "default" THEN 11 ELSE (font.size * 4) \div 5

BBoxOutcomes(font, nchars) ==
    {BBoxFail, [ok |-> TRUE, w |-> nchars * CharW(font), h |-> CharH(font)]}

\* text_width, text_height after the try/except around textbbox.
TextSize(m, font_size) ==
    IF m.ok THEN [w |-> m.w, h |-> m.h, measured |-> TRUE]
    ELSE [w |-> font_size \div 2, h |-> font_size, measured |-> FALSE]

icon_margin(size) == IntPct(size, 8)

icon_coin_size(size) == IntPct(size, 62)

icon_font_size(size) == Max(10, IntPct(icon_coin_size(size), 45))

\* The four ellipses with the front coin drawn first.
icon_coins_front_first(size) ==
    LET margin == IntPct(size, 8)
        coin_size == IntPct(size, 62)
        coin2 == size - margin - coin_size
        inner_margin == Max(1, IntPct(coin_size, 8))
    IN << DrawOp("ellipse", "front_coin",
                 <<margin, margin, margin + coin_size, margin + coin_size>>),
          DrawOp("ellipse", "front_inner",
                 <<margin + inner_margin, margin + inner_margin,
                   margin + coin_size - inner_margin, margin + coin_size - inner_margin>>),
          DrawOp("ellipse", "back_coin",
                 <<coin2, coin2, coin2 + coin_size, coin2 + coin_size>>),
          DrawOp("ellipse", "back_inner",
                 <<coin2 + inner_margin, coin2 + inner_margin,
                   coin2 + coin_size - inner_margin, coin2 + coin_size - inner_margin>>) >>

\* The four ellipses, back coin first.
icon_coins(size) ==
    LET margin == icon_margin(size)
        coin_size == icon_coin_size(size)
        coin1_x == margin
        coin1_y == margin
        coin2_x == size - margin - coin_size
        coin2_y == size - margin - coin_size
        inner_margin == Max(1, IntPct(coin_size, 8))
    IN << DrawOp("ellipse", "back_coin",
                 <<coin2_x, coin2_y, coin2_x + coin_size, coin2_y + coin_size>>),
          DrawOp("ellipse", "back_inner",
                 <<coin2_x + inner_margin, coin2_y + inner_margin,
                   coin2_x + coin_size - inner_margin, coin2_y + coin_size - inner_margin>>),
          DrawOp("ellipse", "front_coin",
                 <<coin1_x, coin1_y, coin1_x + coin_size, coin1_y + coin_size>>),
          DrawOp("ellipse", "front_inner",
                 <<coin1_x + inner_margin, coin1_y + inner_margin,
                   coin1_x + coin_size - inner_margin, coin1_y + coin_size - inner_margin>>) >>

\* The '$' on the front coin (always) and the euro sign on the back coin.
icon_euro_min == 32

icon_glyphs(size, font, mDollar, mEuro) ==
    LET margin == icon_margin(size)
        coin_size == icon_coin_size(size)
        font_size == icon_font_size(size)
        coin2 == size - margin - coin_size
        td == TextSize(mDollar, font_size)
        te == TextSize(mEuro, font_size)
        dollar == [op |-> "text", what |-> "$",
                   xy |-> <<margin + (coin_size - td.w) \div 2,
                            margin + (coin_size - td.h) \div 2 - IntPct(size, 2)>>,
                   tw |-> td.w, th |-> td.h, measured |-> td.measured]
        euro == [op |-> "text", what |-> "EUR_SIGN",
                 xy |-> <<coin2 + (coin_size - te.w) \div 2,
                          coin2 + (coin_size - te.h) \div 2 - IntPct(size, 2)>>,
                 tw |-> te.w, th |-> te.h, measured |-> te.measured]
    IN IF size >= icon_euro_min THEN <<dollar, euro>> ELSE <<dollar>>

\* The two exchange arrows: a line and a triangular head each.
icon_arrow_min == 48

\* The arrows with the threshold compared strictly (size > 48).
icon_arrows_strict(size) ==
    IF size > icon_arrow_min
    THEN << [op |-> "line", what |-> "arrow_right", xy |-> <<0, 0, 0, 0>>, width |-> 2],
            DrawOp("polygon", "arrow_right", <<0, 0, 0, 0, 0, 0>>),
            [op |-> "line", what |-> "arrow_left", xy |-> <<0, 0, 0, 0>>, width |-> 2],
            DrawOp("polygon", "arrow_left", <<0, 0, 0, 0, 0, 0>>) >>
    ELSE <<>>

icon_arrows(size) ==
    IF size >= icon_arrow_min
    THEN LET center_x == size \div 2
             center_y == size \div 2
             arrow_len == IntPct(size, 10)
             arrow_head == Max(3, IntPct(size, 4))
             arrow_y1 == center_y - IntPct(size, 5)
             arrow_y2 == center_y + IntPct(size, 5)
             thick == Max(2, IntPermille(size, 25))
         IN << [op |-> "line", what |-> "arrow_right",
                xy |-> <<center_x - arrow_len, arrow_y1, center_x + arrow_len, arrow_y1>>,
                width |-> thick],
               DrawOp("polygon", "arrow_right",
                      <<center_x + arrow_len, arrow_y1,
                        center_x + arrow_len - arrow_head, arrow_y1 - arrow_head,
                        center_x + arrow_len - arrow_head, arrow_y1 + arrow_head>>),
               [op |-> "line", what |-> "arrow_left",
                xy |-> <<center_x + arrow_len, arrow_y2, center_x - arrow_len, arrow_y2>>,
                width |-> thick],
               DrawOp("polygon", "arrow_left",
                      <<center_x - arrow_len, arrow_y2,
                        center_x - arrow_len + arrow_head, arrow_y2 - arrow_head,
                        center_x - arrow_len + arrow_head, arrow_y2 + arrow_head>>) >>
    ELSE <<>>

\* Image.new("RGBA", (size, size), ...)
icon_new(size) == [w |-> size, h |-> size, mode |-> "RGBA", ops |-> <<>>]

\* create_currency_icon(size), given which font sources load and what the two
\* textbbox calls do.
create_currency_icon(size, loadable, mDollar, mEuro) ==
    LET c == icon_new(size)
        g == get_font(icon_font_size(size), loadable)
        font == [face |-> g.face, size |-> g.size]
    IN [c EXCEPT !.ops = icon_coins(size) \o icon_glyphs(size, font, mDollar, mEuro)
                         \o icon_arrows(size)]

\* The file name with the size written twice, as in "16x16.png".
IconName_SizeBySize(size) == ToString(size) \o "x" \o ToString(size) \o ".png"

\* f"{size}.png"
IconName(size) == ToString(size) \o ".png"

IconsInit ==
    /\ pc = "icons_makedirs"
    /\ idx = 1
    /\ img = NoImg
    /\ dirs \in {{}, {IconDir}}
    /\ files = <<>>
    /\ partial = {}
    /\ stdout = <<>>
    /\ err = "none"
    /\ errAt = "none"
    /\ fontLog = <<>>
    /\ grad = NoGrad
    /\ call = [fn |-> "create-icons.main"]

\* The exception caught and recorded where it is raised, the run going on
\* at the same statement.
Raise_Caught(kind, at) ==
    /\ err' = kind
    /\ errAt' = at
    /\ pc' = pc

\* An uncaught exception ends the run: nothing is caught in either main().
Raise(kind, at) ==
    /\ err' = kind
    /\ errAt' = at
    /\ pc' = "aborted"

\* os.makedirs(output_dir, exist_ok=True), then the first print.
IconsMakedirs ==
    /\ pc = "icons_makedirs"
    /\ \/ /\ dirs' = dirs \cup {IconDir}
          /\ stdout' = Append(stdout, "Creating QuickCurrency icons...")
          /\ pc' = "icons_loop"
          /\ UNCHANGED <<err, errAt>>
       \/ /\ Raise("OSError", "makedirs")
          /\ UNCHANGED <<dirs, stdout>>
    /\ UNCHANGED <<idx, img, files, partial, fontLog, grad, call>>

\* One pass of `for size in SIZES` up to the save: print, create_currency_icon.
IconsCreate ==
    /\ pc = "icons_loop"
    /\ idx <= Len(SIZES)
    /\ LET size == SIZES[idx] IN
       \E loadable \in SUBSET TrueTypeSources :
         LET g == get_font(icon_font_size(size), loadable)
             font == [face |-> g.face, size |-> g.size]
         IN \E mDollar \in BBoxOutcomes(font, 1), mEuro \in BBoxOutcomes(font, 1) :
              /\ img' = create_currency_icon(size, loadable, mDollar, mEuro)
              /\ fontLog' = << [fn |-> "get_font", loadable |-> loadable,
                                tried |-> g.tried, fonts |-> <<font>>] >>
    /\ stdout' = Append(stdout, "Creating icon " \o ToString(SIZES[idx]))
    /\ pc' = "icons_save"
    /\ UNCHANGED <<idx, dirs, files, partial, err, errAt, grad, call>>

\* icon.save(output_path, "PNG") and the print after it.
IconsSave ==
    /\ pc = "icons_save"
    /\ LET name == IconName(SIZES[idx]) IN
       \/ /\ files' = Append(files, [name |-> name, img |-> img])
          /\ stdout' = Append(stdout, "Saved to " \o name)
          /\ img' = NoImg
          /\ fontLog' = <<>>
          /\ idx' = idx + 1
          /\ pc' = "icons_loop"
          /\ UNCHANGED <<partial, err, errAt>>
       \/ /\ Raise("OSError", "save " \o name)
          /\ partial' \in {partial, partial \cup {name}}
          /\ UNCHANGED <<files, stdout, img, idx, fontLog>>
    /\ UNCHANGED <<dirs, grad, call>>

\* The loop is exhausted: the closing print.
IconsFinish ==
    /\ pc = "icons_loop"
    /\ idx > Len(SIZES)
    /\ stdout' = Append(stdout, "All icons created successfully!")
    /\ pc' = "done"
    /\ UNCHANGED <<idx, img, dirs, files, partial, err, errAt, fontLog, grad, call>>

IconsNext == IconsMakedirs \/ IconsCreate \/ IconsSave \/ IconsFinish

SpecIcons == IconsInit /\ [][IconsNext]_vars

(***************************************************************************)
(* create-store-assets.py: colours and create_gradient_background          *)
(***************************************************************************)
SCREENSHOT_SIZE == <<1280, 800>>

PROMO_TILE_SIZE == <<440, 280>>

\* A colour string is the sequence of its characters.
PRIMARY_GRADIENT_START == <<"#", "2", "5", "6", "3", "e", "b">>

PRIMARY_GRADIENT_END == <<"#", "1", "e", "4", "0", "a", "f">>

GREEN_START == <<"#", "1", "0", "b", "9", "8", "1">>

GREEN_END == <<"#", "0", "5", "9", "6", "6", "9">>

PURPLE_START == <<"#", "8", "b", "5", "c", "f", "6">>

PURPLE_END == <<"#", "6", "d", "2", "8", "d", "9">>

HexDigits == <<"0", "1", "2", "3", "4", "5", "6", "7", "8", "9",
               "a", "b", "c", "d", "e", "f">>

\* int(c, 16) of one digit
HexVal(c) == (CHOOSE i \in 1..16 : HexDigits[i] = c) - 1

\* str.lstrip(ch)
RECURSIVE lstrip(_, _)
lstrip(str, ch) ==
    IF str # <<>> /\ Head(str) = ch THEN lstrip(Tail(str), ch) ELSE str

hex_to_rgb(hex_color) ==
    LET hx == lstrip(hex_color, "#")
    IN << 16 * HexVal(hx[1]) + HexVal(hx[2]),
          16 * HexVal(hx[3]) + HexVal(hx[4]),
          16 * HexVal(hx[5]) + HexVal(hx[6]) >>

\* int(a / b) for b > 0: Python's int() truncates toward zero.
Trunc(a, b) == IF a >= 0 THEN a \div b ELSE -((-a) \div b)

\* The ratio without its 0.3 offset: (y / height) / 1.3.
gradient_ratio_num_unbiased(y, height) == 10 * y

\* The ratio with the offset subtracted: (y / height - 0.3) / 1.3.
gradient_ratio_num_minus(y, height) == 10 * y - 3 * height

\* ratio = (y / height + 0.3) / 1.3 is the fraction
\* gradient_ratio_num / gradient_ratio_den, before the clamp.
gradient_ratio_num(y, height) == 10 * y + 3 * height

gradient_ratio_den(height) == 13 * height

\* ratio = min(1.0, max(0.0, ratio)), on the numerator
gradient_clamp(num, den) == Min(den, Max(0, num))

\* int(start + (end - start) * ratio) for one channel of row y.  The code
\* computes in binary floating point: where the exact value is an integer k
\* the float product can fall just below it, and int() then gives k - 1.
gradient_channel(start, end, y, height) ==
    LET den == gradient_ratio_den(height)
        num == gradient_clamp(gradient_ratio_num(y, height), den)
        exact == start * den + (end - start) * num
        k == Trunc(exact, den)
    IN IF end # start /\ num < den /\ exact % den = 0 THEN {k - 1, k} ELSE {k}

\* The rows the loop of create_gradient_background draws, summarised as one
\* drawing call: row y is the line (0, y)-(width, y).
create_gradient_background(size, start_color, end_color) ==
    [w |-> size[1], h |-> size[2], mode |-> "RGB",
     ops |-> << [op |-> "gradient", what |-> <<start_color, end_color>>,
                 xy |-> <<0, 0, size[1], size[2] - 1>>] >>]

\* Heights and widths of the gradients drawn besides the program's own.
MaxHeight == 6

TestWidth == 2

TestChannels == {<<"0", "0">>, <<"4", "1">>, <<"f", "f">>}

TestColours == {<<"#">> \o r \o g \o b : r \in TestChannels, g \in TestChannels, b \in TestChannels}

\* The four calls the program makes (create_screenshot_1/2/3, create_promo_tile).
ProgramGradients ==
    { [size |-> SCREENSHOT_SIZE, start |-> PRIMARY_GRADIENT_START, end |-> PRIMARY_GRADIENT_END],
      [size |-> SCREENSHOT_SIZE, start |-> GREEN_START, end |-> GREEN_END],
      [size |-> SCREENSHOT_SIZE, start |-> PURPLE_START, end |-> PURPLE_END],
      [size |-> PROMO_TILE_SIZE, start |-> PRIMARY_GRADIENT_START, end |-> PRIMARY_GRADIENT_END] }

TestGradients ==
    { [size |-> <<TestWidth, hh>>, start |-> cs, end |-> ce] :
        hh \in 1..MaxHeight, cs \in TestColours, ce \in TestColours }

GradInit ==
    /\ pc = "grad_loop"
    /\ \E cfg \in ProgramGradients \cup TestGradients :
         /\ grad = [on |-> TRUE, size |-> cfg.size, start |-> cfg.start, end |-> cfg.end,
                    y |-> 0, row |-> <<>>, prev |-> <<>>, endSeen |-> FALSE]
         /\ call = [fn |-> "create_gradient_background", size |-> cfg.size]
    /\ idx = 1
    /\ img = NoImg
    /\ dirs = {}
    /\ files = <<>>
    /\ partial = {}
    /\ stdout = <<>>
    /\ err = "none"
    /\ errAt = "none"
    /\ fontLog = <<>>

\* One pass of `for y in range(height)`: grad.y counts the rows drawn, grad.row
\* is the colour of the last one and grad.prev of the one before.
GradRow ==
    /\ pc = "grad_loop"
    /\ grad.y < grad.size[2]
    /\ LET start_rgb == hex_to_rgb(grad.start)
           end_rgb == hex_to_rgb(grad.end)
           height == grad.size[2]
       IN \E r \in gradient_channel(start_rgb[1], end_rgb[1], grad.y, height),
             g \in gradient_channel(start_rgb[2], end_rgb[2], grad.y, height),
             b \in gradient_channel(start_rgb[3], end_rgb[3], grad.y, height) :
            grad' = [grad EXCEPT !.y = @ + 1, !.row = <<r, g, b>>, !.prev = grad.row,
                                 !.endSeen = @ \/ <<r, g, b>> = end_rgb]
    /\ UNCHANGED <<pc, idx, img, dirs, files, partial, stdout, err, errAt, fontLog, call>>

\* The loop is exhausted: return img.
GradReturn ==
    /\ pc = "grad_loop"
    /\ grad.y = grad.size[2]
    /\ img' = create_gradient_background(grad.size, grad.start, grad.end)
    /\ pc' = "grad_returned"
    /\ UNCHANGED <<idx, dirs, files, partial, stdout, err, errAt, fontLog, grad, call>>

GradNext == GradRow \/ GradReturn

SpecGradient == GradInit /\ [][GradNext]_vars

(***************************************************************************)
(* create-store-assets.py: create_mock_popup, the screenshots, main        *)
(***************************************************************************)
StoreDir == "store-assets"

Helvetica(size) == [face |-> "Helvetica", size |-> size]

DefaultFont == [face |-> "default", size |-> 0]

\* A try block that loads Helvetica at each of `sizes` in turn, with the
\* except branch that sets the first font to load_default() and every other
\* font to the first.  failAt = 0: every load succeeds; failAt = k: load k raises.
LoadFonts(sizes, failAt) ==
    IF failAt = 0
    THEN [i \in 1..Len(sizes) |-> Helvetica(sizes[i])]
    ELSE [i \in 1..Len(sizes) |-> DefaultFont]

FontEntry(fn, sizes, failAt) ==
    [fn |-> fn, failAt |-> failAt, fonts |-> LoadFonts(sizes, failAt)]

Text(what, x, y, font, cy) ==
    [op |-> "text", what |-> what, xy |-> <<x, y>>, font |-> font, cy |-> cy]

\* draw_rounded_rectangle(draw, xy, radius, fill), draw.rectangle, draw.line
Shape(op, what, xy, cy) == [op |-> op, what |-> what, xy |-> xy, cy |-> cy]

\* img.paste(src, at, mask): the destination keeps its own size.
Paste(dest, src, at, what) ==
    [dest EXCEPT !.ops = Append(@, [op |-> "paste", what |-> what,
                                    xy |-> <<at[1], at[2], at[1] + src.w, at[2] + src.h>>,
                                    src |-> src])]

\* img.filter(ImageFilter.GaussianBlur(radius)): a new image of the same size.
GaussianBlur(src, radius) ==
    [src EXCEPT !.ops = Append(@, [op |-> "blur", what |-> "GaussianBlur",
                                   xy |-> <<0, 0, src.w, src.h>>])]

\* Image.new with the size tuple given as (height, width).
NewImage_Swapped(mode, width, height) ==
    [w |-> height, h |-> width, mode |-> mode, ops |-> <<>>]

\* Image.new(mode, (width, height), ...)
NewImage(mode, width, height) == [w |-> width, h |-> height, mode |-> mode, ops |-> <<>>]

popup_font_sizes == <<16, 14, 12, 32>>

popup_padding == 16

SaveLabelChars == 15

\* The quick-access chips: for i, curr in enumerate(currencies), as one
\* rounded rectangle and one text per chip; chip 1 (0-based) is highlighted.
popup_chips(y, font_small) ==
    LET currencies == <<"USD", "EUR", "GBP", "JPY", "CAD">>
        btn_width == 50
        chip(i) ==
            LET btn_x == popup_padding + (i - 1) * (btn_width + 8)
            IN << [op |-> "rounded_rectangle", what |-> "chip " \o currencies[i],
                   xy |-> <<btn_x, y, btn_x + btn_width, y + 28>>, cy |-> y,
                   highlighted |-> (i - 1 = 1)],
                  Text(currencies[i], btn_x + 12, y + 6, font_small, y) >>
    IN chip(1) \o chip(2) \o chip(3) \o chip(4) \o chip(5)

\* create_mock_popup(size): the drawing calls up to the textbbox call of the
\* 'Save to History' label, against the running cursor y.
popup_upper(width, fonts) ==
    LET padding == popup_padding
        font_bold == fonts[1]
        font_regular == fonts[2]
        font_small == fonts[3]
        font_large == fonts[4]
        y0 == padding
        y1 == y0 + 40
        y2 == y1 + 20
        y3 == y2 + 20
        y4 == y3 + 60
        y5 == y4 + 20
        y6 == y5 + 60
        result_height == 100
        result_y == y6
        y7 == y6 + result_height + 16
        swap_x == width \div 2 - 15
    IN << Text("QuickCurrency", padding, y0, font_bold, y0),
          Shape("line", "divider", <<padding, y1, width - padding, y1>>, y1),
          Text("AMOUNT", padding, y2, font_small, y2),
          Shape("rounded_rectangle", "amount input", <<padding, y3, width - padding, y3 + 44>>, y3),
          Shape("rectangle", "amount prefix", <<padding + 1, y3 + 1, padding + 40, y3 + 43>>, y3),
          Text("$", padding + 12, y3 + 12, font_regular, y3),
          Text("1,000.00", padding + 52, y3 + 8, font_bold, y3),
          Text("FROM", padding, y4, font_small, y4),
          Text("TO", width \div 2 + 10, y4, font_small, y4),
          Shape("rounded_rectangle", "from box", <<padding, y5, width \div 2 - 25, y5 + 40>>, y5),
          Text("USD - US Dollar", padding + 12, y5 + 10, font_regular, y5),
          Shape("rounded_rectangle", "swap button", <<swap_x, y5, swap_x + 30, y5 + 40>>, y5),
          Text("<>", swap_x + 8, y5 + 10, font_regular, y5),
          Shape("rounded_rectangle", "to box", <<width \div 2 + 25, y5, width - padding, y5 + 40>>, y5),
          Text("EUR - Euro", width \div 2 + 37, y5 + 10, font_regular, y5),
          Shape("gradient", "result card",
                <<padding, result_y, width - padding, result_y + result_height - 1>>, y6),
          Shape("rounded_rectangle", "result card corners",
                <<padding, result_y, width - padding, result_y + result_height>>, y6),
          Text("1,000.00 USD =", padding + 16, result_y + 12, font_small, y6),
          Text("920.45", padding + 16, result_y + 35, font_large, y6),
          Text("EUR", padding + 120, result_y + 45, font_regular, y6),
          Text("1 USD = 0.92045 EUR", padding + 16, result_y + 75, font_small, y6),
          Shape("rounded_rectangle", "save button", <<padding, y7, width - padding, y7 + 40>>, y7) >>

\* The cursor when the 'Save to History' button is reached.
popup_button_y == popup_padding + 40 + 20 + 20 + 60 + 20 + 60 + 100 + 16

\* The drawing calls after the textbbox call returned bbox.
popup_lower(width, fonts, bbox) ==
    LET padding == popup_padding
        font_regular == fonts[2]
        font_small == fonts[3]
        y7 == popup_button_y
        text_width == bbox.w
        y8 == y7 + 56
        y9 == y8 + 22
    IN << Text("Save to History", (width - text_width) \div 2, y7 + 11, font_regular, y7),
          Text("QUICK ACCESS", padding, y8, font_small, y8) >>
       \o popup_chips(y9, font_small)

\* create_mock_popup(size): failAt says which font load raises (0: none) and
\* mSave what textbbox does for 'Save to History'.  That call is not inside
\* a try block: when it raises, so does create_mock_popup.
create_mock_popup(size, failAt, mSave) ==
    LET width == size[1]
        height == size[2]
        c == NewImage("RGBA", width, height)
        fonts == LoadFonts(popup_font_sizes, failAt)
    IN IF mSave.ok
       THEN [raised |-> FALSE,
             img |-> [c EXCEPT !.ops = popup_upper(width, fonts)
                                        \o popup_lower(width, fonts, mSave)]]
       ELSE [raised |-> TRUE, img |-> NoImg]

\* The three title/subtitle texts of a screenshot.
screenshot_fonts == <<56, 28>>

create_screenshot_1(sFailAt, pFailAt, mSave) ==
    LET bg == create_gradient_background(SCREENSHOT_SIZE, PRIMARY_GRADIENT_START,
                                         PRIMARY_GRADIENT_END)
        fonts == LoadFonts(screenshot_fonts, sFailAt)
        title_x == 80
        title_y == 280
        titled == [bg EXCEPT !.ops = @ \o
                     << Text("Fast Currency", title_x, title_y, fonts[1], 0),
                        Text("Conversion", title_x, title_y + 70, fonts[1], 0),
                        Text("200+ currencies including crypto", title_x, title_y + 160,
                             fonts[2], 0) >>]
        popup == create_mock_popup(<<360, 420>>, pFailAt, mSave)
        shadow0 == NewImage("RGBA", 380, 440)
        shadow1 == [shadow0 EXCEPT !.ops =
                      << Shape("rounded_rectangle", "shadow", <<10, 10, 370, 430>>, 0) >>]
        shadow == GaussianBlur(shadow1, 15)
        popup_x == 780
        popup_y == 180
    IN IF popup.raised
       THEN [raised |-> TRUE, img |-> NoImg]
       ELSE [raised |-> FALSE,
             img |-> Paste(Paste(titled, shadow, <<popup_x - 10, popup_y - 10>>, "shadow"),
                           popup.img, <<popup_x, popup_y>>, "popup")]

\* The grid of twelve currency cards, four per row.
screenshot_2_cards(title_font, currency_font) ==
    LET currencies == <<"USD", "EUR", "GBP", "JPY", "BTC", "ETH",
                        "CAD", "AUD", "CHF", "CNY", "INR", "KRW">>
        grid_x == 720
        grid_y == 180
        card_width == 120
        card_height == 80
        gap == 16
        card(i) ==
            LET row == (i - 1) \div 4
                col == (i - 1) % 4
                x == grid_x + col * (card_width + gap)
                y == grid_y + row * (card_height + gap)
            IN << Shape("rounded_rectangle", "card " \o currencies[i],
                        <<x, y, x + card_width, y + card_height>>, 0),
                  Text("symbol " \o currencies[i], x + 15, y + 15, title_font, 0),
                  Text(currencies[i], x + 15, y + 55, currency_font, 0) >>
        RECURSIVE cards(_)
        cards(i) == IF i > Len(currencies) THEN <<>> ELSE card(i) \o cards(i + 1)
    IN cards(1)

create_screenshot_2(failAt) ==
    LET bg == create_gradient_background(SCREENSHOT_SIZE, GREEN_START, GREEN_END)
        fonts == LoadFonts(<<56, 28, 24>>, failAt)
    IN [raised |-> FALSE,
        img |-> [bg EXCEPT !.ops = @ \o
                   << Text("200+ Currencies", 80, 280, fonts[1], 0),
                      Text("Including Crypto", 80, 360, fonts[1], 0),
                      Text("Bitcoin, Ethereum, and more", 80, 450, fonts[2], 0) >>
                   \o screenshot_2_cards(fonts[1], fonts[3])]]

create_screenshot_3(failAt) ==
    LET bg == create_gradient_background(SCREENSHOT_SIZE, PURPLE_START, PURPLE_END)
        fonts == LoadFonts(screenshot_fonts, failAt)
        center_x == 900
        center_y == 400
        radius == 150
    IN [raised |-> FALSE,
        img |-> [bg EXCEPT !.ops = @ \o
                   << Text("Real-time Rates", 80, 300, fonts[1], 0),
                      Text("Always Up to Date", 80, 380, fonts[1], 0),
                      Text("Free, no signup required", 80, 470, fonts[2], 0),
                      Shape("ellipse", "clock face",
                            <<center_x - radius, center_y - radius,
                              center_x + radius, center_y + radius>>, 0),
                      Shape("line", "hour hand",
                            <<center_x, center_y, center_x, center_y - 80>>, 0),
                      Shape("line", "minute hand",
                            <<center_x, center_y, center_x + 60, center_y + 40>>, 0),
                      Shape("ellipse", "center dot",
                            <<center_x - 10, center_y - 10, center_x + 10, center_y + 10>>, 0) >>]]

create_promo_tile(failAt) ==
    LET bg == create_gradient_background(PROMO_TILE_SIZE, PRIMARY_GRADIENT_START,
                                         PRIMARY_GRADIENT_END)
        fonts == LoadFonts(<<32, 18, 48>>, failAt)
        title_font == fonts[1]
        subtitle_font == fonts[2]
        symbol_font == fonts[3]
    IN [raised |-> FALSE,
        img |-> [bg EXCEPT !.ops = @ \o
                   << Text("$", 40, 60, symbol_font, 0),
                      Text("<>", 90, 70, title_font, 0),
                      Text("EUR_SIGN", 150, 60, symbol_font, 0),
                      Text("QuickCurrency", 40, 140, title_font, 0),
                      Text("Fast currency converter", 40, 185, subtitle_font, 0),
                      Text("200+ currencies", 40, 215, subtitle_font, 0) >>]]

\* The four assets of main(), in statement order: the function that builds
\* each and the name it is saved under.
StoreAssets ==
    << [fn |-> "create_screenshot_1", name |-> "screenshot-1-converter.png"],
       [fn |-> "create_screenshot_2", name |-> "screenshot-2-currencies.png"],
       [fn |-> "create_screenshot_3", name |-> "screenshot-3-realtime.png"],
       [fn |-> "create_promo_tile", name |-> "promo-tile-440x280.png"] >>

StoreInit ==
    /\ pc = "store_makedirs"
    /\ idx = 1
    /\ img = NoImg
    /\ dirs \in {{}, {StoreDir}}
    /\ files = <<>>
    /\ partial = {}
    /\ stdout = <<>>
    /\ err = "none"
    /\ errAt = "none"
    /\ fontLog = <<>>
    /\ grad = NoGrad
    /\ call = [fn |-> "create-store-assets.main"]

\* os.makedirs(output_dir, exist_ok=True), then the first print.
StoreMakedirs ==
    /\ pc = "store_makedirs"
    /\ \/ /\ dirs' = dirs \cup {StoreDir}
          /\ stdout' = Append(stdout, "Creating Chrome Web Store assets...")
          /\ pc' = "store_create"
          /\ UNCHANGED <<err, errAt>>
       \/ /\ Raise("OSError", "makedirs")
          /\ UNCHANGED <<dirs, stdout>>
    /\ UNCHANGED <<idx, img, files, partial, fontLog, grad, call>>

\* A create_* call returned r: keep its canvas for the save, or let its
\* exception end the run.
StoreBuilt(r, log) ==
    /\ stdout' = Append(stdout, "Creating " \o StoreAssets[idx].name)
    /\ fontLog' = log
    /\ \/ /\ ~r.raised
          /\ img' = r.img
          /\ pc' = "store_save"
          /\ UNCHANGED <<err, errAt>>
       \/ /\ r.raised
          /\ Raise("textbbox", StoreAssets[idx].fn)
          /\ UNCHANGED img
    /\ UNCHANGED <<idx, dirs, files, partial, grad, call>>

\* screenshot1 = create_screenshot_1()
StoreCreate1 ==
    /\ pc = "store_create"
    /\ StoreAssets[idx].fn = "create_screenshot_1"
    /\ \E sFailAt \in 0..Len(screenshot_fonts), pFailAt \in 0..Len(popup_font_sizes) :
         \E mSave \in BBoxOutcomes(LoadFonts(popup_font_sizes, pFailAt)[2], SaveLabelChars) :
           StoreBuilt(create_screenshot_1(sFailAt, pFailAt, mSave),
                      << FontEntry("create_screenshot_1", screenshot_fonts, sFailAt),
                         FontEntry("create_mock_popup", popup_font_sizes, pFailAt) >>)

\* screenshot2 = create_screenshot_2()
StoreCreate2 ==
    /\ pc = "store_create"
    /\ StoreAssets[idx].fn = "create_screenshot_2"
    /\ \E failAt \in 0..3 :
         StoreBuilt(create_screenshot_2(failAt),
                    << FontEntry("create_screenshot_2", <<56, 28, 24>>, failAt) >>)

\* screenshot3 = create_screenshot_3()
StoreCreate3 ==
    /\ pc = "store_create"
    /\ StoreAssets[idx].fn = "create_screenshot_3"
    /\ \E failAt \in 0..Len(screenshot_fonts) :
         StoreBuilt(create_screenshot_3(failAt),
                    << FontEntry("create_screenshot_3", screenshot_fonts, failAt) >>)

\* promo = create_promo_tile()
StoreCreate4 ==
    /\ pc = "store_create"
    /\ StoreAssets[idx].fn = "create_promo_tile"
    /\ \E failAt \in 0..3 :
         StoreBuilt(create_promo_tile(failAt),
                    << FontEntry("create_promo_tile", <<32, 18, 48>>, failAt) >>)

\* <asset>.save(os.path.join(output_dir, name), "PNG")
StoreSave ==
    /\ pc = "store_save"
    /\ LET name == StoreAssets[idx].name IN
       \/ /\ files' = Append(files, [name |-> name, img |-> img])
          /\ img' = NoImg
          /\ fontLog' = <<>>
          /\ idx' = idx + 1
          /\ pc' = IF idx = Len(StoreAssets) THEN "store_summary" ELSE "store_create"
          /\ UNCHANGED <<partial, err, errAt>>
       \/ /\ Raise("OSError", "save " \o name)
          /\ partial' \in {partial, partial \cup {name}}
          /\ UNCHANGED <<files, img, idx, fontLog>>
    /\ UNCHANGED <<dirs, stdout, grad, call>>

\* print(f"\nAll assets saved to {output_dir}"), print("\nGenerated files:")
StoreSummary ==
    /\ pc = "store_summary"
    /\ stdout' = stdout \o <<"All assets saved to " \o StoreDir, "Generated files:">>
    /\ pc' = "store_list"
    /\ UNCHANGED <<idx, img, dirs, files, partial, err, errAt, fontLog, grad, call>>

\* for f in os.listdir(output_dir): getsize and print
StoreList ==
    /\ pc = "store_list"
    /\ \/ /\ stdout' = Append(stdout, "listing")
          /\ pc' = "done"
          /\ UNCHANGED <<err, errAt>>
       \/ /\ Raise("OSError", "listdir")
          /\ UNCHANGED stdout
    /\ UNCHANGED <<idx, img, dirs, files, partial, fontLog, grad, call>>

StoreNext ==
    \/ StoreMakedirs
    \/ StoreCreate1
    \/ StoreCreate2
    \/ StoreCreate3
    \/ StoreCreate4
    \/ StoreSave
    \/ StoreSummary
    \/ StoreList

SpecStore == StoreInit /\ [][StoreNext]_vars

(***************************************************************************)
(* create_mock_popup called on its own                                     *)
(***************************************************************************)
\* Side of the small canvases the popup is drawn on besides the two sizes
\* the program names.
MaxSide == 3

PopupSizes ==
    {<<360, 400>>, <<360, 420>>, <<360, 460>>}
    \cup {<<pw, ph>> : pw \in 1..MaxSide, ph \in 1..MaxSide}

PopupInit ==
    /\ pc = "popup_call"
    /\ \E size \in PopupSizes : call = [fn |-> "create_mock_popup", size |-> size]
    /\ idx = 1
    /\ img = NoImg
    /\ dirs = {}
    /\ files = <<>>
    /\ partial = {}
    /\ stdout = <<>>
    /\ err = "none"
    /\ errAt = "none"
    /\ fontLog = <<>>
    /\ grad = NoGrad

\* popup = create_mock_popup(size)
PopupCall ==
    /\ pc = "popup_call"
    /\ \E failAt \in 0..Len(popup_font_sizes) :
         \E mSave \in BBoxOutcomes(LoadFonts(popup_font_sizes, failAt)[2], SaveLabelChars) :
           LET r == create_mock_popup(call.size, failAt, mSave) IN
             /\ fontLog' = << FontEntry("create_mock_popup", popup_font_sizes, failAt) >>
             /\ \/ /\ ~r.raised
                   /\ img' = r.img
                   /\ pc' = "popup_returned"
                   /\ UNCHANGED <<err, errAt>>
                \/ /\ r.raised
                   /\ Raise("textbbox", "create_mock_popup")
                   /\ UNCHANGED img
    /\ UNCHANGED <<idx, dirs, files, partial, stdout, grad, call>>

PopupNext == PopupCall

SpecPopup == PopupInit /\ [][PopupNext]_vars

(***************************************************************************)
(* Both drivers and the two functions, each from its own initial state     *)
(***************************************************************************)
Init == IconsInit \/ StoreInit \/ GradInit \/ PopupInit

Next == IconsNext \/ StoreNext \/ GradNext \/ PopupNext

Spec == Init /\ [][Next]_vars

(***************************************************************************)
(* Properties                                                              *)
(***************************************************************************)
\* Positions in a canvas's call list of the calls of one kind on one thing.
OpsOf(c, op, what) == {i \in DOMAIN c.ops : c.ops[i].op = op /\ c.ops[i].what = what}

OpsOfKind(c, op) == {i \in DOMAIN c.ops : c.ops[i].op = op}

FileNames == {files[i].name : i \in DOMAIN files}

IconFileNames == <<"16.png", "32.png", "48.png", "96.png", "128.png">>

\* The size an icon file is named after.
IconFileSize(name) ==
    CASE name = "16.png" -> 16
      [] name = "32.png" -> 32
      [] name = "48.png" -> 48
      [] name = "96.png" -> 96
      [] name = "128.png" -> 128
      [] OTHER -> 0

\* Some run of create_currency_icon(size) returns canvas c.
IsIconOf(c, size) ==
    \E loadable \in SUBSET TrueTypeSources :
      LET g == get_font(icon_font_size(size), loadable)
          font == [face |-> g.face, size |-> g.size]
      IN \E mD \in BBoxOutcomes(font, 1), mE \in BBoxOutcomes(font, 1) :
           c = create_currency_icon(size, loadable, mD, mE)

\* C1: in a run of the icon driver the output directory exists before anything
\* is written; the files are written in the order 16.png, 32.png, 48.png,
\* 96.png, 128.png, each holding a canvas create_currency_icon returns for
\* that size; a complete run has written exactly these five and nothing else.
C1_IconRun ==
    call.fn = "create-icons.main" =>
      /\ (files # <<>> \/ partial # {}) => "public/icon" \in dirs
      /\ Len(files) <= 5
      /\ \A i \in DOMAIN files :
           /\ files[i].name = IconFileNames[i]
           /\ IsIconOf(files[i].img, IconFileSize(files[i].name))
      /\ pc = "done" =>
           /\ [i \in DOMAIN files |-> files[i].name] = IconFileNames
           /\ partial = {}

C1_Witness ==
    /\ call.fn = "create-icons.main"
    /\ pc = "done"
    /\ Len(files) = 5
    /\ files[5].name = "128.png"

StoreFileNames == <<"screenshot-1-converter.png", "screenshot-2-currencies.png",
                    "screenshot-3-realtime.png", "promo-tile-440x280.png">>

\* C2: after a run of the store-assets driver in which no file operation
\* failed, all four named files exist in the store-assets directory (written
\* in the order of the driver's statements, the directory existing first).
C2_AllFourAfterRun ==
    (call.fn = "create-store-assets.main" /\ pc \in {"done", "aborted"} /\ err # "OSError") =>
      /\ "store-assets" \in dirs
      /\ [i \in DOMAIN files |-> files[i].name] = StoreFileNames

\* What does hold of the store-assets driver: the directory exists before the
\* first write and the files written so far are a prefix of the four names.
StoreOrderHolds ==
    call.fn = "create-store-assets.main" =>
      /\ files # <<>> => "store-assets" \in dirs
      /\ Len(files) <= 4
      /\ \A i \in DOMAIN files : files[i].name = StoreFileNames[i]
      /\ pc = "done" => Len(files) = 4

\* Number of text calls drawing `what` on canvas c.
Glyphs(c, what) == Cardinality(OpsOf(c, "text", what))

ArrowLines(c) == Cardinality(OpsOf(c, "line", "arrow_right") \cup OpsOf(c, "line", "arrow_left"))

ArrowHeads(c) ==
    Cardinality(OpsOf(c, "polygon", "arrow_right") \cup OpsOf(c, "polygon", "arrow_left"))

\* C3: every icon written has exactly one '$' glyph; it has the euro glyph
\* exactly when its size is at least 32 and the two arrows (two lines, two
\* triangular heads) exactly when its size is at least 48: 16 has one glyph
\* and no arrows, 32 two glyphs and no arrows, 48, 96 and 128 two glyphs and
\* both arrows.  Nothing else is drawn as text, line or polygon.
C3_GlyphsAndArrows ==
    call.fn = "create-icons.main" =>
      \A i \in DOMAIN files :
        LET c == files[i].img
            size == IconFileSize(files[i].name)
        IN /\ Glyphs(c, "$") = 1
           /\ Glyphs(c, "EUR_SIGN") = (IF size >= 32 THEN 1 ELSE 0)
           /\ ArrowLines(c) = (IF size >= 48 THEN 2 ELSE 0)
           /\ ArrowHeads(c) = (IF size >= 48 THEN 2 ELSE 0)
           /\ Cardinality(OpsOfKind(c, "text")) = (IF size = 16 THEN 1 ELSE 2)
           /\ Cardinality(OpsOfKind(c, "line") \cup OpsOfKind(c, "polygon"))
                = (IF size \in {48, 96, 128} THEN 4 ELSE 0)

\* The 16, 32 and 48 icons are written, the '$' of the 16 icon placed by the
\* fallback size and the 48 icon carrying its arrows.
C3_Witness ==
    /\ call.fn = "create-icons.main"
    /\ Len(files) >= 3
    /\ files[1].name = "16.png" /\ Glyphs(files[1].img, "EUR_SIGN") = 0
    /\ \E k \in OpsOf(files[1].img, "text", "$") : ~files[1].img.ops[k].measured
    /\ files[2].name = "32.png" /\ Glyphs(files[2].img, "EUR_SIGN") = 1
    /\ ArrowLines(files[2].img) = 0
    /\ files[3].name = "48.png" /\ ArrowLines(files[3].img) = 2

\* Canvas c is wd pixels wide and ht pixels high.
HasSize(c, wd, ht) == c.w = wd /\ c.h = ht

\* Some drawing call of c names a coordinate outside c.
DrawsOutside(c) ==
    \E i \in DOMAIN c.ops : \E j \in DOMAIN c.ops[i].xy :
      \/ c.ops[i].xy[j] < 0
      \/ (j % 2 = 1 /\ c.ops[i].xy[j] > c.w - 1)
      \/ (j % 2 = 0 /\ c.ops[i].xy[j] > c.h - 1)

\* C4: a canvas has the size it was created with, whatever was drawn on or
\* pasted into it and after it was saved: an icon is size x size, the popup
\* has the requested width and height (also when it is drawn past its
\* edges), the gradient background has the requested size, the screenshots
\* are 1280x800 with the 380x440 shadow and the 360x420 popup pasted in, and
\* the promo tile is 440x280.
C4_CanvasSizeFixed ==
    /\ call.fn = "create-icons.main" =>
         /\ \A i \in DOMAIN files :
              HasSize(files[i].img, IconFileSize(files[i].name), IconFileSize(files[i].name))
         /\ pc = "icons_save" => HasSize(img, SIZES[idx], SIZES[idx])
    /\ (call.fn = "create_mock_popup" /\ pc = "popup_returned") =>
         HasSize(img, call.size[1], call.size[2])
    /\ (call.fn = "create_gradient_background" /\ pc = "grad_returned") =>
         HasSize(img, call.size[1], call.size[2])
    /\ call.fn = "create-store-assets.main" =>
         LET shot(c) == HasSize(c, 1280, 800)
             shot1(c) ==
                 /\ shot(c)
                 /\ \E k \in OpsOf(c, "paste", "shadow") : HasSize(c.ops[k].src, 380, 440)
                 /\ \E k \in OpsOf(c, "paste", "popup") : HasSize(c.ops[k].src, 360, 420)
             ok(name, c) ==
                 CASE name = "screenshot-1-converter.png" -> shot1(c)
                   [] name = "screenshot-2-currencies.png" -> shot(c)
                   [] name = "screenshot-3-realtime.png" -> shot(c)
                   [] name = "promo-tile-440x280.png" -> HasSize(c, 440, 280)
                   [] OTHER -> FALSE
         IN /\ \A i \in DOMAIN files : ok(files[i].name, files[i].img)
            /\ pc = "store_save" => ok(StoreFileNames[idx], img)

\* The popup asked for at 360x400 is returned at 360x400 although calls on it
\* (the quick-access chips) reach below its bottom edge.
C4_Witness ==
    /\ call.fn = "create_mock_popup"
    /\ pc = "popup_returned"
    /\ call.size = <<360, 400>>
    /\ HasSize(img, 360, 400)
    /\ DrawsOutside(img)

Abs(n) == IF n >= 0 THEN n ELSE -n

\* v is start + (end - start) * ratio truncated, for the ratio num/den: the
\* exact value lies in [v, v + 1), or it is the integer v + 1 and the float
\* product fell just below it.
IsTruncated(v, start, end, num, den) ==
    LET exact == start * den + (end - start) * num
    IN /\ den * v <= exact
       /\ exact <= den * (v + 1)
       /\ (exact = den * (v + 1)) => end # start

\* C5: every channel of every row drawn by create_gradient_background is
\* start + (end - start) * ratio truncated, with ratio = (y/height + 0.3)/1.3;
\* it lies between the start and the end value inclusive; it is never farther
\* from the end value than the row before; and row 0 is the formula's value
\* at ratio 0.3/1.3, which is below the start value for a falling channel and
\* above it for a channel rising by 5 or more.
C5_GradientRows ==
    (grad.on /\ grad.y >= 1) =>
      \A ch \in 1..3 :
        LET start == hex_to_rgb(grad.start)[ch]
            end == hex_to_rgb(grad.end)[ch]
            height == grad.size[2]
            y == grad.y - 1
            v == grad.row[ch]
        IN /\ IsTruncated(v, start, end, 10 * y + 3 * height, 13 * height)
           /\ Min(start, end) <= v /\ v <= Max(start, end)
           /\ grad.y >= 2 => Abs(end - v) <= Abs(end - grad.prev[ch])
           /\ grad.y = 1 =>
                /\ IsTruncated(v, start, end, 3, 13)
                /\ end < start => v < start
                /\ end >= start + 5 => v > start

\* A gradient of at least two rows is drawn to its last row, the last two
\* rows differ and a channel of the last row sits at an exact integer value.
C5_Witness ==
    /\ grad.on
    /\ grad.y = grad.size[2]
    /\ grad.y >= 2
    /\ grad.row # grad.prev
    /\ \E ch \in 1..3 :
         LET start == hex_to_rgb(grad.start)[ch]
             end == hex_to_rgb(grad.end)[ch]
         IN /\ end # start
            /\ ((end - start) * (10 * (grad.y - 1) + 3 * grad.size[2])) % (13 * grad.size[2]) = 0

\* C6: each gradient the program renders (blue at 1280x800 and at 440x280,
\* green and purple at 1280x800) has, when its loop ends, drawn a row whose
\* colour is the end colour in all three channels.
C6_ReachesEndColour ==
    (/\ grad.on
     /\ grad.y = grad.size[2]
     /\ \/ grad.size = <<1280, 800>> /\ grad.start = PRIMARY_GRADIENT_START
           /\ grad.end = PRIMARY_GRADIENT_END
        \/ grad.size = <<440, 280>> /\ grad.start = PRIMARY_GRADIENT_START
           /\ grad.end = PRIMARY_GRADIENT_END
        \/ grad.size = <<1280, 800>> /\ grad.start = GREEN_START /\ grad.end = GREEN_END
        \/ grad.size = <<1280, 800>> /\ grad.start = PURPLE_START /\ grad.end = PURPLE_END)
    => grad.endSeen

\* The purple screenshot gradient is drawn to its last row, which is #6d28d9.
C6_Witness ==
    /\ grad.on
    /\ grad.size = <<1280, 800>>
    /\ grad.start = PURPLE_START
    /\ grad.y = 800
    /\ grad.row = <<109, 40, 217>>
    /\ grad.endSeen

\* C7: a failing text measurement is recovered where it happens and never
\* ends the building of an asset: an icon glyph whose measurement failed is
\* still drawn, placed with width font_size // 2 and height font_size, and
\* no run or call ends with the exception of a textbbox call.
C7_MeasureFailureRecovered ==
    /\ call.fn = "create-icons.main" =>
         \A i \in DOMAIN files : \A k \in OpsOfKind(files[i].img, "text") :
           LET size == IconFileSize(files[i].name)
               font_size == Max(10, (((size * 62) \div 100) * 45) \div 100)
               t == files[i].img.ops[k]
           IN ~t.measured => (t.tw = font_size \div 2 /\ t.th = font_size)
    /\ err # "textbbox"

\* The part of C7 that holds: the icon script's fallback.
C7_IconFallbackHolds ==
    call.fn = "create-icons.main" =>
      /\ err # "textbbox"
      /\ \A i \in DOMAIN files : \A k \in OpsOfKind(files[i].img, "text") :
           LET size == IconFileSize(files[i].name)
               font_size == Max(10, (((size * 62) \div 100) * 45) \div 100)
               t == files[i].img.ops[k]
           IN ~t.measured => (t.tw = font_size \div 2 /\ t.th = font_size)

\* C8: a font-loading failure never reaches a driver.  get_font tries
\* Helvetica, SFNSMono and the default in this order and returns the first
\* that loads; a store-asset function one of whose loads failed has all its
\* fonts set to the default font and still returns its canvas.
C8_FontFailureNeverSurfaces ==
    \A i \in DOMAIN fontLog :
      LET e == fontLog[i] IN
      IF e.fn = "get_font"
      THEN /\ Len(e.tried) \in 1..3
           /\ e.tried = SubSeq(<<"Helvetica", "SFNSMono", "default">>, 1, Len(e.tried))
           /\ e.fonts[1].face = e.tried[Len(e.tried)]
           /\ e.fonts[1].face \in e.loadable \cup {"default"}
           /\ \A j \in 1..(Len(e.tried) - 1) : e.tried[j] \notin e.loadable
           /\ img # NoImg
      ELSE e.failAt # 0 =>
             /\ \A j \in DOMAIN e.fonts : e.fonts[j].face = "default"
             /\ img # NoImg

\* The part of C8 that holds: the order of get_font, the substitution of the
\* default font, and no exception of a font load ending a run.
C8_FontFallbackHolds ==
    /\ err \in {"none", "OSError", "textbbox"}
    /\ \A i \in DOMAIN fontLog :
         LET e == fontLog[i] IN
         IF e.fn = "get_font"
         THEN /\ e.tried = SubSeq(<<"Helvetica", "SFNSMono", "default">>, 1, Len(e.tried))
              /\ e.fonts[1].face = e.tried[Len(e.tried)]
              /\ \A j \in 1..(Len(e.tried) - 1) : e.tried[j] \notin e.loadable
              /\ img # NoImg
         ELSE /\ e.failAt # 0 => \A j \in DOMAIN e.fonts : e.fonts[j].face = "default"
              /\ (e.failAt # 0 /\ err # "textbbox") => img # NoImg

SuccessLines == {"All icons created successfully!", "All assets saved to store-assets"}

\* C9: when directory creation or a save fails in either driver, the run ends
\* at that step: no further step is possible, the files saved before it are
\* exactly those that precede the failing one in the driver's order, the
\* failing asset and all later ones are not among the saved files, and the
\* success line is not printed.
C9_FilesystemFailureEndsRun ==
    (err = "OSError" /\ errAt # "listdir") =>
      LET names == IF call.fn = "create-icons.main" THEN IconFileNames ELSE StoreFileNames
      IN /\ call.fn \in {"create-icons.main", "create-store-assets.main"}
         /\ pc = "aborted"
         /\ ~ENABLED Next
         /\ \A i \in DOMAIN stdout : stdout[i] \notin SuccessLines
         /\ \/ errAt = "makedirs" /\ files = <<>> /\ img = NoImg
            \/ \E k \in DOMAIN names :
                 /\ errAt = "save " \o names[k]
                 /\ files = [i \in 1..(k - 1) |-> files[i]]
                 /\ Len(files) = k - 1
                 /\ \A i \in 1..(k - 1) : files[i].name = names[i]

\* The save of the third store asset failed with the first two files written.
C9_Witness ==
    /\ call.fn = "create-store-assets.main"
    /\ err = "OSError"
    /\ errAt = "save screenshot-3-realtime.png"
    /\ FileNames = {"screenshot-1-converter.png", "screenshot-2-currencies.png"}
    /\ pc = "aborted"

\* The one call of canvas c that draws `what` as an ellipse.
Ellipse(c, what) == CHOOSE k \in OpsOf(c, "ellipse", what) : TRUE

\* C10: for every icon written, with margin = int(0.08 * size) and diameter =
\* int(0.62 * size), the front coin's box has its origin at (margin, margin)
\* and the back coin's at size - margin - diameter, both boxes lie inside the
\* canvas, they overlap in a non-empty region, the back coin and its inner
\* circle are drawn before the front coin and its inner circle, and the
\* arrows are drawn after both coins and both glyphs.
C10_CoinGeometry ==
    call.fn = "create-icons.main" =>
      \A i \in DOMAIN files :
        LET c == files[i].img
            size == IconFileSize(files[i].name)
            margin == (8 * size) \div 100
            diameter == (62 * size) \div 100
            back == c.ops[Ellipse(c, "back_coin")].xy
            front == c.ops[Ellipse(c, "front_coin")].xy
            arrows == OpsOfKind(c, "line") \cup OpsOfKind(c, "polygon")
        IN /\ Cardinality(OpsOf(c, "ellipse", "back_coin")) = 1
           /\ Cardinality(OpsOf(c, "ellipse", "front_coin")) = 1
           /\ Cardinality(OpsOf(c, "ellipse", "back_inner")) = 1
           /\ Cardinality(OpsOf(c, "ellipse", "front_inner")) = 1
           /\ front = <<margin, margin, margin + diameter, margin + diameter>>
           /\ back = <<size - margin - diameter, size - margin - diameter,
                       size - margin, size - margin>>
           /\ \A j \in 1..4 : front[j] >= 0 /\ front[j] <= size - 1
           /\ \A j \in 1..4 : back[j] >= 0 /\ back[j] <= size - 1
           /\ front[1] < back[1] /\ front[2] < back[2]
           /\ back[1] < front[3] /\ back[2] < front[4]
           /\ Ellipse(c, "back_coin") < Ellipse(c, "back_inner")
           /\ Ellipse(c, "back_inner") < Ellipse(c, "front_coin")
           /\ Ellipse(c, "front_coin") < Ellipse(c, "front_inner")
           /\ \A t \in OpsOfKind(c, "text") : Ellipse(c, "front_inner") < t
           /\ \A a \in arrows :
                /\ \A t \in OpsOfKind(c, "text") : t < a
                /\ \A e \in OpsOfKind(c, "ellipse") : e < a

\* The 128 icon is written: coins of diameter 79 at 10 and 39, four arrow calls.
C10_Witness ==
    /\ call.fn = "create-icons.main"
    /\ Len(files) = 5
    /\ files[5].name = "128.png"
    /\ files[5].img.ops[Ellipse(files[5].img, "front_coin")].xy = <<10, 10, 89, 89>>
    /\ files[5].img.ops[Ellipse(files[5].img, "back_coin")].xy = <<39, 39, 118, 118>>
    /\ Cardinality(OpsOfKind(files[5].img, "line") \cup OpsOfKind(files[5].img, "polygon")) = 4

\* The box an element of the popup occupies: a shape's own box, a text's
\* origin extended by its length in characters and its font's height.
ElementBox(o) ==
    IF o.op = "text"
    THEN <<o.xy[1], o.xy[2], o.xy[1] + Len(o.what) * CharW(o.font), o.xy[2] + CharH(o.font)>>
    ELSE o.xy

\* The box lies inside a canvas of the given width and height.
BoxInside(box, width, height) ==
    /\ 0 <= box[1] /\ box[1] <= box[3] /\ box[3] <= width
    /\ 0 <= box[2] /\ box[2] <= box[4] /\ box[4] <= height

\* The cursor starts at 16, never decreases from one drawing call to the
\* next, and a call made at a later cursor value is at or below the bottom
\* edge of every element placed at an earlier one.
CursorFlows(c) ==
    /\ c.ops[1].cy = 16
    /\ \A i, j \in DOMAIN c.ops : i < j => c.ops[i].cy <= c.ops[j].cy
    /\ \A i, j \in DOMAIN c.ops :
         c.ops[i].cy < c.ops[j].cy => ElementBox(c.ops[i])[4] <= c.ops[j].cy

\* The five quick-access chips of canvas c.
Chips(c) == {i \in OpsOfKind(c, "rounded_rectangle") : "highlighted" \in DOMAIN c.ops[i]}

\* C11: in create_mock_popup the cursor starts at the padding 16, only
\* increases and places each element at or below the bottom edge of the one
\* before; for the sizes 360x400 and 360x420 every element positioned, from
\* the header to the button, the 'QUICK ACCESS' label and the five chips (one
\* of them highlighted), lies entirely inside the canvas.
C11_PopupLayoutInside ==
    (call.fn = "create_mock_popup" /\ pc = "popup_returned"
       /\ call.size \in {<<360, 400>>, <<360, 420>>}) =>
      /\ CursorFlows(img)
      /\ Cardinality(Chips(img)) = 5
      /\ Cardinality({i \in Chips(img) : img.ops[i].highlighted}) = 1
      /\ \A i \in DOMAIN img.ops : BoxInside(ElementBox(img.ops[i]), img.w, img.h)

\* The part of C11 that holds: the cursor flow for every size, the five chips
\* with one highlighted, and for 360x400 and 360x420 every element from the
\* header down to the button (cursor 16 to 352) inside the canvas; the chips
\* are placed at cursor 430 and end at 458.
C11_CursorFlowHolds ==
    (call.fn = "create_mock_popup" /\ pc = "popup_returned") =>
      /\ CursorFlows(img)
      /\ Cardinality(Chips(img)) = 5
      /\ Cardinality({i \in Chips(img) : img.ops[i].highlighted}) = 1
      /\ \A i \in Chips(img) : img.ops[i].cy = 430 /\ img.ops[i].xy[4] = 458
      /\ call.size \in {<<360, 400>>, <<360, 420>>} =>
           \A i \in DOMAIN img.ops :
             img.ops[i].cy <= 352 => BoxInside(ElementBox(img.ops[i]), img.w, img.h)

====
